---- MODULE Spec2Model ----
(***************************************************************************)
(* Heads-up fixed-limit hold'em: the betting state machine                 *)
(* (LimitHoldemState) and the hand driver (LimitHoldemGame) of main.py.    *)
(*                                                                         *)
(* Chip amounts are counted in quarter big blinds, so that the small blind *)
(* 0.5 is the integer 2, the big blind 1 is 4 and a 100bb stack is 400.    *)
(* Python lists indexed by role are functions on {0, 1}; `not role` used   *)
(* as an index is 1 - role.                                                *)
(***************************************************************************)
EXTENDS Integers, Sequences, FiniteSets, TLC

\* ---- bounds of the exploration ----
MaxHands == 2       \* new_hand calls explored in one session
MaxActs == 5        \* update calls explored between two new_hand calls
MaxBudget == 1      \* largest n_hands handed to play_n_hands
MachineHands == 1   \* new_hand calls explored when the methods are called directly
MachineActs == 2    \* update calls explored per hand when called directly
MaxRounds == 3      \* largest n_rounds handed to formulate_game
MaxNps == 2         \* largest nps handed to formulate_game

\* ---- program constants ----
sb_amt == 2         \* self.sb_amt = 0.5
bb_amt == 4         \* self.bb_amt = 1
StartStack == 400   \* self.stacks = [100, 100]
DeckSize == 52      \* Deck(): one shuffled 52-card deck
RaiseCap == 3       \* self.raise_count < 3
BigBetStreet == 2   \* self.street < 2 in raise_amount / bet_amount
ShowdownStreet == 5 \* self.street == 5 in deal_or_showdown
PAYOFF == -1        \* PAYOFF, NATURE, P1, P2 = -1, 0, 1, 2
NATURE == 0
P1 == 1
P2 == 2
NO_RAISING == FALSE \* toggle for better visualization

Roles == {0, 1}

VARIABLES
    history,        \* previous hands
    actions,        \* running hand history
    board,          \* dealt board (cards named by their position in the deck)
    pot_amount,     \* how much is in the pot
    street,         \* current street
    raise_count,    \* number of raises
    deck,           \* number of cards left in the deck
    hand_over,
    game_over,
    bb_flag,        \* which player is big blind
    action_flag,    \* which player is acting
    aliased,        \* action_flag and bb_flag are the same list object
    acted,
    stacks,
    bets,
    hands,
    pc,             \* position of the caller: play_n_hands / play_hand, or "api"
    n_hands,        \* argument of play_n_hands
    nacts,          \* update calls since the last new_hand
    hands_dealt,    \* new_hand calls so far
    clean,          \* every update since the last new_hand applied an offered action
    start_total,    \* stacks[0] + stacks[1] when the last new_hand was entered
    last,           \* the operation that produced this state
    matched,        \* the last Preference handed to match, with its list and result
    n_rounds,       \* formulate_game: number of rounds
    nps,            \* formulate_game: chance outcomes per street
    nodes,          \* the Node objects created so far, in creation order
    edges,          \* the edges of G: the predecessors of every node
    todo,           \* nodes still waiting for their fta_rec call, next first
    payoff_count    \* payoffs counted so far

mvars == <<history, actions, board, pot_amount, street, raise_count, deck,
           hand_over, game_over, bb_flag, action_flag, aliased, acted,
           stacks, bets, hands>>
vars == <<history, actions, board, pot_amount, street, raise_count, deck,
          hand_over, game_over, bb_flag, action_flag, aliased, acted,
          stacks, bets, hands, pc, n_hands, nacts, hands_dealt, clean,
          start_total, last, matched, n_rounds, nps, nodes, edges, todo,
          payoff_count>>
tvars == <<n_rounds, nps, nodes, edges, todo, payoff_count>>

Pair(a, b) == [i \in Roles |-> IF i = 0 THEN a ELSE b]

\* list.reverse() of a two-element list
\* a reverse that copies the first entry over the second
Reverse_copy(l) == [i \in Roles |-> l[0]]

Reverse(l) == [i \in Roles |-> l[1 - i]]

\* ---- Action values: kind and amount (None is the amount of fold and check) ----
None == -1000
Action(kind, amount) == [kind |-> kind, amount |-> amount]
fold == Action("fold", None)
check == Action("check", None)
call_n(amount) == Action("call", amount)
bet_n(amount) == Action("bet", amount)
raise_n(amount) == Action("raise", amount)
shove_n(amount) == Action("shove", amount)

\* ---- LimitHoldemState: queries ----
acting_player == IF action_flag[0] = 1 THEN 0 ELSE 1

bb_player == IF bb_flag[0] = 1 THEN 0 ELSE 1

facing_bet_raise(role) == bets[role] < bets[1 - role]

facing_call(role) == bets[role] = bets[1 - role]

can_cover_bet(role) == stacks[role] >= bets[1 - role]

has_bb_option(role) ==
    bb_flag[role] = 1 /\ street = 0 /\ facing_call(role)

raise_amount == IF street < BigBetStreet THEN bb_amt ELSE 2 * bb_amt

bet_amount == IF street < BigBetStreet THEN sb_amt ELSE bb_amt

can_raise_nocap(role) ==
    LET can_raise_normally == raise_count <= RaiseCap /\ facing_bet_raise(role)
        can_use_option == raise_count <= RaiseCap /\ has_bb_option(role)
        can_pay == stacks[role] >= raise_amount
    IN  (can_raise_normally \/ can_use_option) /\ can_pay

can_raise(role) ==
    LET can_raise_normally == raise_count < RaiseCap /\ facing_bet_raise(role)
        can_use_option == raise_count < RaiseCap /\ has_bb_option(role)
        can_pay == stacks[role] >= raise_amount
    IN  (can_raise_normally \/ can_use_option) /\ can_pay

can_bet(role) == bets[role] = 0 /\ ~facing_bet_raise(role)

can_check(role) ==
    ~facing_bet_raise(role) /\ (bets[role] = 0 \/ has_bb_option(role))

\* can_call without the stack comparison of can_cover_bet.
can_call_nocover(role) == facing_bet_raise(role)

can_call(role) == facing_bet_raise(role) /\ can_cover_bet(role)

can_shove(role) == facing_bet_raise(role) /\ ~can_call(role)

can_fold(role) == facing_bet_raise(role)

\* the list built by available_actions, in the order check, bet, call,
\* raise, shove; [None] when it is not the role's turn
available_actions(role) ==
    IF action_flag[role] # 1 THEN << Action("none", None) >>
    ELSE  (IF can_check(role) THEN << check >> ELSE << >>)
       \o (IF can_bet(role) THEN << bet_n(bet_amount) >> ELSE << >>)
       \o (IF can_call(role) THEN << call_n(bets[1 - role]) >> ELSE << >>)
       \o (IF can_raise(role) THEN << raise_n(raise_amount) >> ELSE << >>)
       \o (IF can_shove(role) THEN << shove_n(stacks[role]) >> ELSE << >>)

\* membership of an action value in the list
Offered(a, acts) == \E i \in 1..Len(acts) : acts[i] = a

pot_is_good ==
    LET bets_eq == bets[0] = bets[1]
        both_played == acted[0] = 1 /\ acted[1] = 1
        bb_no_option == ~has_bb_option(bb_player)
    IN  bets_eq /\ both_played /\ bb_no_option

\* deck.draw(n): the next n cards of the shuffled deck
draw(n) == [i \in 1..n |-> DeckSize - deck + i]


\* ---- LimitHoldemState.new_hand ----
\* the forced blinds cannot both be posted
cannot_post(bb) == stacks[bb] < bb_amt \/ stacks[1 - bb] < sb_amt

posted_stacks(bb) ==
    [i \in Roles |-> IF i = bb THEN stacks[i] - bb_amt ELSE stacks[i] - sb_amt]

\* the stacks when new_hand returns
new_hand_stacks_eager(bb) == posted_stacks(bb)

new_hand_stacks(bb) == IF cannot_post(bb) THEN stacks ELSE posted_stacks(bb)

\* bb_flag after `self.bb_flag.reverse()`, `self.action_flag = self.bb_flag`
\* and `self.action_flag.reverse()`: the last reverse acts on the one list
\* both names now refer to
new_hand_flag == Reverse(Reverse(bb_flag))

new_hand ==
    LET flag == new_hand_flag
        bb == IF flag[0] = 1 THEN 0 ELSE 1
        sb == 1 - bb
    IN  /\ bb_flag' = flag
        /\ action_flag' = flag
        /\ aliased' = TRUE
        /\ history' = IF actions # << >> THEN Append(history, actions) ELSE history
        /\ actions' = << >>
        /\ board' = << >>
        /\ pot_amount' = 0
        /\ acted' = Pair(0, 0)
        /\ street' = 0
        /\ raise_count' = 0
        /\ hand_over' = FALSE
        /\ stacks' = new_hand_stacks(bb)
        /\ IF cannot_post(bb)
           THEN /\ game_over' = TRUE
                /\ bets' = Pair(0, 0)
                /\ hands' = Pair(<< >>, << >>)
                /\ deck' = deck
           ELSE /\ game_over' = game_over
                /\ bets' = [i \in Roles |-> IF i = bb THEN bb_amt ELSE sb_amt]
                /\ deck >= 4
                /\ hands' = [i \in Roles |-> IF i = bb THEN draw(2)
                                             ELSE [k \in 1..2 |-> draw(4)[k + 2]]]
                /\ deck' = deck - 4

\* ---- LimitHoldemState.update ----
update_stacks(action) ==
    LET role == acting_player
    IN  CASE action.kind = "fold" ->
               \* declare_winner(not role): winner takes the pot
               [stacks EXCEPT ![1 - role] = @ + pot_amount]
          [] action.kind = "check" -> stacks
          [] OTHER -> [stacks EXCEPT ![role] = @ - action.amount]

update_bets(action) ==
    LET role == acting_player
    IN  CASE action.kind = "call" -> [bets EXCEPT ![role] = bets[1 - role]]
          [] action.kind = "bet" -> [bets EXCEPT ![role] = action.amount]
          [] action.kind = "raise" -> [bets EXCEPT ![role] = @ + action.amount]
          [] action.kind = "shove" -> [bets EXCEPT ![role] = action.amount]
          [] OTHER -> bets

update(action) ==
    /\ acted' = [acted EXCEPT ![acting_player] = 1]
    /\ stacks' = update_stacks(action)
    /\ bets' = update_bets(action)
    /\ raise_count' = IF action.kind = "raise" THEN raise_count + 1 ELSE raise_count
    /\ hand_over' = IF action.kind = "fold" THEN TRUE ELSE hand_over
    /\ UNCHANGED <<history, actions, board, pot_amount, street, deck, game_over,
                   bb_flag, action_flag, aliased, hands>>

\* ---- LimitHoldemState.new_street / showdown / deal_or_showdown ----
\* new_street that collects the bets into the pot but leaves them in front
new_street_keeps_bets ==
    /\ IF Len(board) = 0
       THEN /\ deck >= 3
            /\ board' = draw(3)
            /\ deck' = deck - 3
       ELSE /\ deck >= 1
            /\ board' = Append(board, draw(1)[1])
            /\ deck' = deck - 1
    /\ pot_amount' = pot_amount + bets[0] + bets[1]
    /\ street' = street + 1
    /\ action_flag' = bb_flag
    /\ aliased' = TRUE
    /\ acted' = Pair(0, 0)
    /\ raise_count' = 0
    /\ UNCHANGED <<history, actions, hand_over, game_over, bb_flag, stacks, hands,
                   bets>>

new_street ==
    /\ IF Len(board) = 0
       THEN /\ deck >= 3
            /\ board' = draw(3)
            /\ deck' = deck - 3
       ELSE /\ deck >= 1
            /\ board' = Append(board, draw(1)[1])
            /\ deck' = deck - 1
    /\ pot_amount' = pot_amount + bets[0] + bets[1]
    /\ street' = street + 1
    /\ action_flag' = bb_flag
    /\ aliased' = TRUE
    /\ acted' = Pair(0, 0)
    /\ bets' = Pair(0, 0)
    /\ raise_count' = 0
    /\ UNCHANGED <<history, actions, hand_over, game_over, bb_flag, stacks, hands>>

\* declare_winner(winner)
declare_winner(winner) ==
    /\ stacks' = [stacks EXCEPT ![winner] = @ + pot_amount]
    /\ hand_over' = TRUE
    /\ UNCHANGED <<history, actions, board, pot_amount, street, raise_count, deck,
                   game_over, bb_flag, action_flag, aliased, acted, bets, hands>>

\* the two scores come from the external evaluator: either role may win
showdown == \E winner \in Roles : declare_winner(winner)

deal_or_showdown ==
    IF street = ShowdownStreet THEN showdown ELSE new_street

put_action_on_bb ==
    /\ action_flag' = bb_flag
    /\ aliased' = TRUE
    /\ UNCHANGED <<history, actions, board, pot_amount, street, raise_count, deck,
                   hand_over, game_over, bb_flag, acted, stacks, bets, hands>>

\* ---- what an Action Provider can hand to update ----
\* An action of any kind with the amount the state gives it, as the
\* providers of main.py build them (bet_n(state.bet_amount()),
\* raise_n(state.raise_amount()), an entry of available_actions), and a
\* bet of an amount off the schedule (a quarter big blind). match hands a
\* fixed Action to update as it is.
OffSchedule == sb_amt \div 2
ProviderActions ==
    LET role == acting_player
    IN  { fold, check, call_n(bets[1 - role]), bet_n(bet_amount),
          raise_n(raise_amount), shove_n(stacks[role]), bet_n(OffSchedule) }

\* ---- match ----
\* An Action object: Action defines no __eq__, so `a in acts` finds a only
\* when the list holds that very object. `id` tells the objects apart.
Obj(a, id) == [kind |-> a.kind, amount |-> a.amount, id |-> id]
NoneObj == [kind |-> "none", amount |-> None, id |-> 0]

\* the list play_hand gets from available_actions: objects built by that call
ListObjects(acts) == [i \in 1..Len(acts) |-> Obj(acts[i], i)]

\* the Actions a provider builds for its Preference: objects of its own
ProviderObjects(prefs) == [i \in 1..Len(prefs) |-> Obj(prefs[i], 0 - i)]

\* `a in acts`
Contains(acts, a) == \E j \in 1..Len(acts) : acts[j].id = a.id

\* match(u, acts) for a Preference u (first entry found in acts, else None)
\* and for a fixed Action (returned as it is)
match(u, acts) ==
    IF u.type = "preference"
    THEN LET hits == {i \in 1..Len(u.preferences) : Contains(acts, u.preferences[i])}
         IN  IF hits = {} THEN NoneObj
             ELSE u.preferences[CHOOSE i \in hits : \A k \in hits : i <= k]
    ELSE u.action

\* the Preferences of s_only_play_aces
ProviderPreferences ==
    { << check, fold >>, << bet_n(bet_amount), raise_n(raise_amount) >> }

NoMatch == [rule |-> "none", prefs |-> << >>, acts |-> << >>, result |-> NoneObj]

\* no game tree is being built
NoGraph ==
    /\ n_rounds = 0
    /\ nps = 0
    /\ nodes = << >>
    /\ edges = << >>
    /\ todo = << >>
    /\ payoff_count = 0

Op(op, kind, legal, role) == [op |-> op, kind |-> kind, legal |-> legal, role |-> role]

\* ---- construction ----
Construct ==
    /\ history = << >>
    /\ actions = << >>
    /\ board = << >>
    /\ pot_amount = 0
    /\ street = 0
    /\ raise_count = 0
    /\ deck = DeckSize
    /\ hand_over = FALSE
    /\ game_over = FALSE
    /\ bb_flag = Pair(1, 0)
    /\ action_flag = Pair(0, 1)
    /\ aliased = FALSE
    /\ acted = Pair(0, 0)
    /\ stacks = Pair(StartStack, StartStack)
    /\ bets = Pair(0, 0)
    /\ hands = Pair(<< >>, << >>)
    /\ nacts = 0
    /\ hands_dealt = 0
    /\ clean = TRUE
    /\ start_total = 2 * StartStack
    /\ last = Op("init", "none", TRUE, 0)

\* ---- LimitHoldemGame: play_n_hands / play_hand ----
Init ==
    /\ Construct
    /\ NoGraph
    /\ matched = NoMatch
    /\ pc = "loop"
    /\ n_hands \in 0..MaxBudget

\* the loop test of play_n_hands holds: play_hand starts with new_hand
StartHand ==
    /\ pc = "loop"
    /\ game_over = FALSE /\ Len(history) < n_hands
    /\ hands_dealt < MaxHands
    /\ new_hand
    /\ pc' = "hand"
    /\ nacts' = 0
    /\ hands_dealt' = hands_dealt + 1
    /\ clean' = TRUE
    /\ start_total' = stacks[0] + stacks[1]
    /\ last' = Op("new_hand", "none", TRUE, 0)
    /\ UNCHANGED <<n_hands, matched, tvars>>

\* the loop test of play_n_hands fails
Finish ==
    /\ pc = "loop"
    /\ ~(game_over = FALSE /\ Len(history) < n_hands)
    /\ pc' = "done"
    /\ last' = Op("return", "none", TRUE, 0)
    /\ UNCHANGED <<mvars, n_hands, nacts, hands_dealt, clean, start_total,
                   matched, tvars>>

\* one pass of the while loop of play_hand
PlayHandStep ==
    /\ pc = "hand"
    /\ ~hand_over
    /\ IF pot_is_good
       THEN /\ deal_or_showdown
            /\ last' = Op(IF street = ShowdownStreet THEN "showdown" ELSE "new_street",
                          "none", TRUE, 0)
            /\ UNCHANGED <<nacts, clean>>
       ELSE /\ nacts < MaxActs
            /\ \E a \in ProviderActions :
                 LET legal == Offered(a, available_actions(acting_player))
                 IN  /\ update(a)
                     /\ last' = Op("update", a.kind, legal, acting_player)
                     /\ clean' = (clean /\ legal)
            /\ nacts' = nacts + 1
    /\ UNCHANGED <<pc, n_hands, hands_dealt, start_total, matched, tvars>>

\* one pass of the while loop of play_hand with a provider that returns a
\* Preference: match resolves it against the list; update(None) fails on
\* action.action_type before anything is changed
PlayHandPreference ==
    /\ pc = "hand"
    /\ ~hand_over
    /\ ~pot_is_good
    /\ \E prefs \in ProviderPreferences :
         LET acts == ListObjects(available_actions(acting_player))
             u == [type |-> "preference", preferences |-> ProviderObjects(prefs)]
             decision == match(u, acts)
             legal == Offered(Action(decision.kind, decision.amount),
                              available_actions(acting_player))
         IN  /\ matched' = [rule |-> "preference", prefs |-> u.preferences,
                            acts |-> acts, result |-> decision]
             /\ IF decision = NoneObj
                THEN /\ pc' = "crashed"
                     /\ last' = Op("raise", "none", TRUE, 0)
                     /\ UNCHANGED <<mvars, nacts, clean>>
                ELSE /\ nacts < MaxActs
                     /\ update(Action(decision.kind, decision.amount))
                     /\ last' = Op("update", decision.kind, legal, acting_player)
                     /\ clean' = (clean /\ legal)
                     /\ nacts' = nacts + 1
                     /\ pc' = pc
    /\ UNCHANGED <<n_hands, hands_dealt, start_total, tvars>>

\* the provider has to pick from an empty list (cli_player: mapping[choice];
\* a Preference matching nothing makes update(None) fail): the exception
\* leaves play_hand
NoDecision ==
    /\ pc = "hand"
    /\ ~hand_over
    /\ ~pot_is_good
    /\ available_actions(acting_player) = << >>
    /\ pc' = "crashed"
    /\ last' = Op("raise", "none", TRUE, 0)
    /\ UNCHANGED <<mvars, n_hands, nacts, hands_dealt, clean, start_total,
                   matched, tvars>>

\* `while not state.hand_over` ends: play_hand returns to play_n_hands
ReturnFromHand ==
    /\ pc = "hand"
    /\ hand_over
    /\ pc' = "loop"
    /\ last' = Op("return", "none", TRUE, 0)
    /\ UNCHANGED <<mvars, n_hands, nacts, hands_dealt, clean, start_total,
                   matched, tvars>>

Next ==
    StartHand \/ Finish \/ PlayHandStep \/ PlayHandPreference \/ NoDecision
        \/ ReturnFromHand

Spec == Init /\ [][Next]_vars

\* ---- the state machine called method by method ----
MachineInit ==
    /\ Construct
    /\ NoGraph
    /\ matched = NoMatch
    /\ pc = "api"
    /\ n_hands = 0

CallNewHand ==
    /\ hands_dealt < MachineHands
    /\ new_hand
    /\ nacts' = 0
    /\ hands_dealt' = hands_dealt + 1
    /\ clean' = TRUE
    /\ start_total' = stacks[0] + stacks[1]
    /\ last' = Op("new_hand", "none", TRUE, 0)
    /\ UNCHANGED <<pc, n_hands, matched, tvars>>

CallUpdate ==
    /\ hands_dealt > 0
    /\ ~hand_over
    /\ nacts < MachineActs
    /\ \E a \in ProviderActions :
         LET legal == Offered(a, available_actions(acting_player))
         IN  /\ update(a)
             /\ last' = Op("update", a.kind, legal, acting_player)
             /\ clean' = (clean /\ legal)
    /\ nacts' = nacts + 1
    /\ UNCHANGED <<pc, n_hands, hands_dealt, start_total, matched, tvars>>

CallDealOrShowdown ==
    /\ hands_dealt > 0
    /\ ~hand_over
    /\ deal_or_showdown
    /\ last' = Op(IF street = ShowdownStreet THEN "showdown" ELSE "new_street",
                  "none", pot_is_good, 0)
    /\ clean' = (clean /\ pot_is_good)
    /\ UNCHANGED <<pc, n_hands, nacts, hands_dealt, start_total, matched, tvars>>

MachineNext ==
    CallNewHand \/ CallUpdate \/ CallDealOrShowdown

MachineSpec == MachineInit /\ [][MachineNext]_vars


\* ---- the game tree builder (extensive.py) ----
\* A Node object is named by its position in `nodes` (creation order); the
\* fields rc, parent and children are never written after construction and
\* are left out.  G is the DiGraph: G.nodes are the Node objects and
\* G.edges[v] is the set of predecessors of v (DiGraph.pred).
Node(player, action, depth) == [player |-> player, action |-> action, depth |-> depth]

root == Node(NATURE, "root", 0)

RootId == 1

add_nodes(G, created) ==
    [nodes |-> G.nodes \o created,
     edges |-> G.edges \o [i \in 1..Len(created) |-> {}]]

add_edge(G, u, v) == [G EXCEPT !.edges[v] = @ \cup {u}]

RECURSIVE add_edges(_, _)
add_edges(G, es) ==
    IF es = << >> THEN G
    ELSE add_edges(add_edge(G, Head(es)[1], Head(es)[2]), Tail(es))

\* add_raise_tree whose third raise can be raised again instead of called
add_raise_tree_uncapped(G, raise_node) ==
    LET r == raise_node
        rp == G.nodes[r].player
        other == IF rp = P1 THEN P2 ELSE P1
        depth == G.nodes[r].depth
        base == Len(G.nodes)
        rf == base + 1
        rc == base + 2
        rr == base + 3
        rrf == base + 4
        rrc == base + 5
        rrr == base + 6
        rrrf == base + 7
        rrrc == base + 8
        G1 == add_nodes(G, << Node(other, "f", depth), Node(other, "c", depth),
                              Node(other, "r", depth), Node(rp, "f", depth),
                              Node(rp, "c", depth), Node(rp, "r", depth),
                              Node(other, "f", depth), Node(other, "r", depth) >>)
    IN  [G |-> add_edges(G1, << <<r, rf>>, <<r, rc>>, <<r, rr>>,
                                <<rr, rrf>>, <<rr, rrc>>, <<rr, rrr>>,
                                <<rrr, rrrf>>, <<rrr, rrrc>> >>),
         ps |-> << rf, rrf, rrrf >>,
         ns |-> << rc, rrc, rrrc >>]

add_raise_tree(G, raise_node) ==
    LET r == raise_node
        rp == G.nodes[r].player
        other == IF rp = P1 THEN P2 ELSE P1
        depth == G.nodes[r].depth
        base == Len(G.nodes)
        rf == base + 1
        rc == base + 2
        rr == base + 3
        rrf == base + 4
        rrc == base + 5
        rrr == base + 6
        rrrf == base + 7
        rrrc == base + 8
        G1 == add_nodes(G, << Node(other, "f", depth), Node(other, "c", depth),
                              Node(other, "r", depth), Node(rp, "f", depth),
                              Node(rp, "c", depth), Node(rp, "r", depth),
                              Node(other, "f", depth), Node(other, "c", depth) >>)
    IN  [G |-> add_edges(G1, << <<r, rf>>, <<r, rc>>, <<r, rr>>,
                                <<rr, rrf>>, <<rr, rrc>>, <<rr, rrr>>,
                                <<rrr, rrrf>>, <<rrr, rrrc>> >>),
         ps |-> << rf, rrf, rrrf >>,
         ns |-> << rc, rrc, rrrc >>]

\* returns the graph, the nodes that end in a payoff (ps), the nodes after
\* which play continues (ns) and the number of payoffs already added (t)
add_fta_tree(G, nature_node, rounds) ==
    LET fta == P1
        other == P2
        depth == G.nodes[nature_node].depth + 1
        base == Len(G.nodes)
        x == base + 1
        xx == base + 2
        xb == base + 3
        xbf == base + 4
        xbc == base + 5
        b == base + 6
        bf == base + 7
        bc == base + 8
        br == base + 9
        xbr == base + 10
        G1 == add_edges(
                add_nodes(G, << Node(fta, "x", depth), Node(other, "x", depth),
                                Node(other, "b", depth), Node(fta, "f", depth),
                                Node(fta, "c", depth), Node(fta, "b", depth),
                                Node(other, "f", depth), Node(other, "c", depth) >>),
                << <<nature_node, x>>, <<nature_node, b>>, <<x, xx>>, <<x, xb>>,
                   <<xb, xbf>>, <<xb, xbc>>, <<b, bf>>, <<b, bc>> >>)
        G2 == add_edges(
                add_nodes(G1, << Node(other, "r", depth), Node(fta, "r", depth) >>),
                << <<xb, xbr>>, <<b, br>> >>)
        X == add_raise_tree(G2, xbr)
        B == add_raise_tree(X.G, br)
    IN  IF depth >= rounds
        THEN [G |-> add_edge(add_nodes(G, << Node(PAYOFF, "p", depth) >>),
                             nature_node, base + 1),
              ps |-> << >>, ns |-> << >>, t |-> 1]
        ELSE IF NO_RAISING
        THEN [G |-> G1, ps |-> << xbf, bf >>, ns |-> << xx, xbc, bc >>, t |-> 0]
        ELSE [G |-> B.G,
              ps |-> << xbf, bf >> \o X.ps \o B.ps,
              ns |-> << xx, xbc, bc >> \o X.ns \o B.ns,
              t |-> 0]

\* fta_rec that leaves the nodes of ps without their payoff child
add_payoffs_skipped(G, ps) == G

\* fta_rec, `for p in ps`: one payoff child under every node of ps
RECURSIVE add_payoffs(_, _)
add_payoffs(G, ps) ==
    IF ps = << >> THEN G
    ELSE LET p == Head(ps)
             payoff == Len(G.nodes) + 1
         IN  add_payoffs(
               add_edge(add_nodes(G, << Node(PAYOFF, "p", G.nodes[p].depth + 1) >>),
                        p, payoff),
               Tail(ps))

Call(n, at) == [node |-> n, at |-> at]

TreeInit ==
    /\ Construct
    /\ matched = NoMatch
    /\ n_hands = 0
    /\ pc = "formulate"
    /\ n_rounds \in 1..MaxRounds
    /\ nps \in 1..MaxNps
    /\ nodes = << root >>
    /\ edges = << {} >>
    /\ todo = << >>
    /\ payoff_count = 0

\* formulate_game up to its loop: the Nature nodes of the first street
FormulateGame ==
    /\ pc = "formulate"
    /\ LET ns_per_street == nps
           G == add_nodes([nodes |-> nodes, edges |-> edges],
                          [i \in 1..ns_per_street |-> Node(NATURE, ToString(i - 1), 0)])
       IN  /\ nodes' = G.nodes
           /\ edges' = G.edges
           /\ todo' = [i \in 1..ns_per_street |-> Call(Len(nodes) + i, "formulate_game")]
    /\ payoff_count' = 0
    /\ pc' = "building"
    /\ UNCHANGED <<mvars, n_hands, nacts, hands_dealt, clean, start_total, last,
                   matched, n_rounds, nps>>

\* formulate_game, `for n in ns`: the edge from the root, then fta_rec(n)
FormulateLoop ==
    /\ pc = "building"
    /\ todo # << >>
    /\ Head(todo).at = "formulate_game"
    /\ LET n == Head(todo).node
           G == add_edge([nodes |-> nodes, edges |-> edges], RootId, n)
       IN  /\ nodes' = G.nodes
           /\ edges' = G.edges
           /\ todo' = << Call(n, "fta_rec") >> \o Tail(todo)
    /\ UNCHANGED <<mvars, pc, n_hands, nacts, hands_dealt, clean, start_total,
                   last, matched, n_rounds, nps, payoff_count>>

\* fta_rec up to its loop over ns
fta_rec ==
    /\ pc = "building"
    /\ todo # << >>
    /\ Head(todo).at = "fta_rec"
    /\ LET node == Head(todo).node
           r == add_fta_tree([nodes |-> nodes, edges |-> edges], node, n_rounds)
           G == add_payoffs(r.G, r.ps)
       IN  /\ nodes' = G.nodes
           /\ edges' = G.edges
           /\ payoff_count' = payoff_count + r.t + Len(r.ps)
           /\ todo' = [i \in 1..Len(r.ns) |-> Call(r.ns[i], "for n in ns")]
                        \o Tail(todo)
    /\ UNCHANGED <<mvars, pc, n_hands, nacts, hands_dealt, clean, start_total,
                   last, matched, n_rounds, nps>>

\* fta_rec, `for n in ns`: recurse into n itself, or into nps new Nature nodes
FtaLoop ==
    /\ pc = "building"
    /\ todo # << >>
    /\ Head(todo).at = "for n in ns"
    /\ LET n == Head(todo).node
           G0 == [nodes |-> nodes, edges |-> edges]
           n_states == [i \in 1..nps |-> Len(nodes) + i]
           G1 == add_nodes(G0, [i \in 1..nps |->
                                  Node(NATURE, ToString(i - 1), nodes[n].depth + 1)])
           G == add_edges(G1, [i \in 1..nps |-> <<n, n_states[i]>>])
       IN  IF nps = 1 \/ nodes[n].depth >= n_rounds - 1
           THEN /\ todo' = << Call(n, "fta_rec") >> \o Tail(todo)
                /\ UNCHANGED <<nodes, edges>>
           ELSE /\ nodes' = G.nodes
                /\ edges' = G.edges
                /\ todo' = [i \in 1..nps |-> Call(n_states[i], "fta_rec")]
                             \o Tail(todo)
    /\ UNCHANGED <<mvars, pc, n_hands, nacts, hands_dealt, clean, start_total,
                   last, matched, n_rounds, nps, payoff_count>>

\* formulate_game prints the payoff count
PrintPayoffCount ==
    /\ pc = "building"
    /\ todo = << >>
    /\ pc' = "built"
    /\ UNCHANGED <<mvars, n_hands, nacts, hands_dealt, clean, start_total, last,
                   matched, tvars>>

TreeNext ==
    FormulateGame \/ FormulateLoop \/ fta_rec \/ FtaLoop \/ PrintPayoffCount

TreeSpec == TreeInit /\ [][TreeNext]_vars


\* ---- properties ----
\* the chips of the hand: stacks, bets in front of the players and the pot
Total == stacks[0] + stacks[1] + bets[0] + bets[1] + pot_amount

UpdateStep(kind) == last'.op = "update" /\ last'.kind = kind

\* C1: update of an action offered by available_actions (check, call, bet,
\* raise, shove) leaves stacks[0]+stacks[1]+bets[0]+bets[1]+pot_amount
\* unchanged; a call pays only the difference to the bet in front.
C1_ChipConservation ==
    [][(last'.op = "update" /\ last'.legal /\ last'.kind # "fold")
          => Total' = Total]_vars

\* C2: when a hand is over, the two stacks together hold what they held
\* before the blinds were posted: the winner has received every chip wagered.
C2_PotAwarded == hand_over => stacks[0] + stacks[1] = start_total

\* C3: while the hand is not over and the round is not settled, after
\* new_hand and only offered actions, available_actions of the acting role
\* is a non-empty list of Actions.
C3_LegalSetNonEmpty ==
    (pc = "hand" /\ clean /\ ~game_over /\ ~hand_over /\ ~pot_is_good)
        => /\ Len(available_actions(acting_player)) > 0
           /\ \A i \in 1..Len(available_actions(acting_player)) :
                available_actions(acting_player)[i].kind # "none"

\* C4: in the first hand (two 100bb stacks), a call followed by a check
\* settles the preflop round: pot_is_good holds with bets = [1, 1].
C4_OptionSettles ==
    [][(/\ hands_dealt = 1 /\ start_total = 2 * StartStack /\ nacts = 1
        /\ last.op = "update" /\ last.kind = "call"
        /\ UpdateStep("check"))
          => (pot_is_good' /\ bets' = Pair(bb_amt, bb_amt))]_vars

\* C5: the board holds 0, 3, 4 or 5 cards, never more: a settled round with
\* a 5-card board goes to showdown, not to another street.
C5_StreetCadence == Len(board) \in {0, 3, 4, 5}

\* C6: a hand with blinds posted, played with offered actions only, never
\* leaves the driver stopped before hand_over.
C6_HandCompletes == ~(pc = "crashed" /\ clean /\ ~game_over /\ ~hand_over)

\* C7: raise_count stays within 0..3 while only offered actions are applied,
\* an offered Raise never takes it beyond 3, and Raise is not offered once
\* raise_count has reached 3.
C7_RaiseCap ==
    /\ [](clean => raise_count \in 0..RaiseCap)
    /\ [](raise_count >= RaiseCap =>
            ~Offered(raise_n(raise_amount), available_actions(acting_player)))
    /\ [][(UpdateStep("raise") /\ last'.legal) => raise_count' <= RaiseCap]_vars

C7_Witness ==
    last.op = "update" /\ last.kind = "raise" /\ last.legal /\ raise_count = RaiseCap

\* C8: new_hand, called after an earlier new_hand, makes the other role the
\* big blind.
C8_BigBlindAlternates ==
    [][(last'.op = "new_hand" /\ hands_dealt >= 1) => bb_player' # bb_player]_vars

\* C9: once game_over is set, no update is applied, no card is dealt and no
\* hand is started.
C9_NoPlayAfterGameOver ==
    [][game_over =>
         (last'.op \notin {"update", "new_street", "showdown", "new_hand"}
          /\ deck' = deck)]_vars

\* C10: new_hand called with a stack that cannot cover its blind sets
\* game_over, debits neither stack, leaves bets = [0, 0] and both hole hands
\* empty and draws no card.
C10_InsufficientBlind ==
    [][(/\ last'.op = "new_hand"
        /\ (stacks[bb_player'] < bb_amt \/ stacks[1 - bb_player'] < sb_amt))
          => /\ game_over'
             /\ stacks' = stacks
             /\ bets' = Pair(0, 0)
             /\ hands' = Pair(<< >>, << >>)
             /\ deck' = deck]_vars

C10_Witness ==
    /\ last.op = "new_hand" /\ game_over
    /\ stacks[bb_player] < bb_amt
    /\ bets = Pair(0, 0) /\ deck = DeckSize - 4


\* C11: play_n_hands(n) plays at most n hands: no more than n_hands calls of
\* new_hand are made in a session.
C11_HandBudget == hands_dealt <= n_hands

\* C12: an update with an action that available_actions does not offer
\* leaves stacks, bets, pot_amount, raise_count, acted and hand_over as
\* they were.
C12_IllegalRejected ==
    [][(last'.op = "update" /\ ~last'.legal)
          => UNCHANGED <<stacks, bets, pot_amount, raise_count, acted, hand_over>>]_vars

\* first entry of the preference with an entry of equal kind and amount in acts
SameValue(a, b) == a.kind = b.kind /\ a.amount = b.amount

FirstByValue(prefs, acts) ==
    LET hits == {i \in 1..Len(prefs) :
                    \E j \in 1..Len(acts) : SameValue(acts[j], prefs[i])}
    IN  IF hits = {} THEN NoneObj
        ELSE prefs[CHOOSE i \in hits : \A k \in hits : i <= k]

\* C13: match on a Preference returns the first entry whose kind and amount
\* equal those of an entry of the list, and None only when there is none.
C13_PreferenceByValue ==
    matched.rule = "preference"
        => matched.result = FirstByValue(matched.prefs, matched.acts)

\* C14: every hand is dealt from a full deck: after new_hand has dealt the
\* hole cards, 48 cards are left.
C14_FullDeckPerHand ==
    (last.op = "new_hand" /\ ~game_over) => deck = DeckSize - 4

\* C20: after an update other than a fold, the next action is asked from
\* the other role.
C20_ActionAlternates ==
    [][(last'.op = "update" /\ last'.kind # "fold")
          => acting_player' = 1 - acting_player]_vars


\* C15: when the acting role faces a bet that its stack cannot cover,
\* can_call is false, can_shove is true and available_actions offers
\* Shove of the whole stack; applying it leaves the stack at 0 and the
\* role's bet equal to the shoved amount.
C15_AllInForLess ==
    /\ []((/\ facing_bet_raise(acting_player)
           /\ stacks[acting_player] < bets[1 - acting_player])
            => /\ ~can_call(acting_player)
               /\ can_shove(acting_player)
               /\ Offered(shove_n(stacks[acting_player]),
                          available_actions(acting_player)))
    /\ [][(last'.op = "update" /\ last'.kind = "shove" /\ last'.legal)
            => /\ stacks'[acting_player] = 0
               /\ bets'[acting_player] = stacks[acting_player]]_vars

C15_Witness ==
    /\ last.op = "update" /\ last.kind = "shove" /\ last.legal
    /\ stacks[last.role] = 0
    /\ bets[last.role] = 0
    /\ bets[last.role] < bets[1 - last.role]


\* ---- properties of the built game tree ----
Built == pc = "built"

NodeIds == 1..Len(nodes)

HasChild == UNION {edges[n] : n \in NodeIds}

IsPlayer(n) == nodes[n].player \in {P1, P2}

\* the predecessor of n inside its own betting round, 0 when there is none
RoundParent(n) ==
    IF \E p \in edges[n] : p < n /\ IsPlayer(p) /\ nodes[p].depth = nodes[n].depth
    THEN CHOOSE p \in edges[n] : p < n /\ IsPlayer(p) /\ nodes[p].depth = nodes[n].depth
    ELSE 0

\* raise nodes of the betting round of n on the path from the root to n
RECURSIVE RaisesUpTo(_)
RaisesUpTo(n) ==
    (IF nodes[n].action = "r" THEN 1 ELSE 0)
      + (IF RoundParent(n) = 0 THEN 0 ELSE RaisesUpTo(RoundParent(n)))

\* C17: the graph built by formulate_game is a rooted tree: the root has no
\* parent, every other node has exactly one parent, which was created before
\* it (so the graph is acyclic and every node hangs under the root), and
\* the nodes without children are exactly the Payoff nodes.
C17_TreeShape ==
    Built =>
      /\ edges[RootId] = {}
      /\ \A n \in NodeIds \ {RootId} :
           /\ Cardinality(edges[n]) = 1
           /\ \A p \in edges[n] : p \in NodeIds /\ p < n
      /\ \A n \in NodeIds : (n \notin HasChild) <=> (nodes[n].player = PAYOFF)

C17_Witness ==
    /\ Built
    /\ n_rounds = MaxRounds
    /\ nps = MaxNps
    /\ \E n \in NodeIds : nodes[n].player = NATURE /\ nodes[n].depth > 0
    /\ \E n \in NodeIds : nodes[n].player = PAYOFF /\ nodes[n].depth = n_rounds

\* C18: in the built tree a betting round holds at most three raise nodes
\* on any path, a player-owned node and its player-owned parent of the same
\* round belong to different players, and the children of a third raise are
\* only fold and call.
C18_RaiseLadder ==
    Built =>
      \A n \in NodeIds :
        /\ RaisesUpTo(n) <= 3
        /\ (IsPlayer(n) /\ RoundParent(n) # 0)
             => nodes[n].player # nodes[RoundParent(n)].player
        /\ (RoundParent(n) # 0 /\ nodes[RoundParent(n)].action = "r"
              /\ RaisesUpTo(RoundParent(n)) = 3)
             => nodes[n].action \in {"f", "c"}

C18_Witness ==
    /\ Built
    /\ \E n \in NodeIds :
         /\ nodes[n].action = "c"
         /\ RaisesUpTo(n) = 3
         /\ nodes[RoundParent(n)].action = "r"

\* leaves below one Nature node when k betting rounds are still to be played:
\* 8 fold-terminated leaves and 9 continuations, each multiplied by nps when a
\* further betting round follows and ending in one leaf otherwise
RECURSIVE RoundLeaves(_, _)
RoundLeaves(k, branching) ==
    IF k = 0 THEN 1
    ELSE 8 + 9 * (IF k > 1 THEN branching * RoundLeaves(k - 1, branching) ELSE 1)

ClosedForm(rounds, branching) == branching * RoundLeaves(rounds - 1, branching)

\* C19: the payoff count reported by formulate_game is the number of Payoff
\* nodes of the built tree and equals the closed form (34 for n_rounds = 2,
\* nps = 2).
C19_PayoffCount ==
    Built =>
      /\ payoff_count = Cardinality({n \in NodeIds : nodes[n].player = PAYOFF})
      /\ payoff_count = ClosedForm(n_rounds, nps)


\* ---- properties of the betting state machine, continued ----
\* C21: right after new_hand has posted the blinds the acting role is the
\* one that is not the big blind: action_flag is the reverse of bb_flag.
C21_SmallBlindActsFirst ==
    (last.op = "new_hand" /\ ~game_over)
      => /\ acting_player # bb_player
         /\ action_flag = Reverse(bb_flag)

\* C22: whenever the acting role of a running hand can fold (it faces a
\* bet), available_actions of that role contains a Fold action.
C22_FoldOffered ==
    (hands_dealt > 0 /\ ~hand_over /\ ~game_over /\ can_fold(acting_player))
      => Offered(fold, available_actions(acting_player))

\* C23: update of an action offered by available_actions, applied in a
\* state where both stacks are at least 0, leaves both stacks at least 0.
C23_StacksNonNegative ==
    [][(/\ last'.op = "update" /\ last'.legal
        /\ stacks[0] >= 0 /\ stacks[1] >= 0)
          => (stacks'[0] >= 0 /\ stacks'[1] >= 0)]_vars

\* C24: new_street at street s moves bets[0] + bets[1] into pot_amount, sets
\* bets and acted to [0, 0] and raise_count to 0, makes the street s + 1 and
\* the big blind the acting role, deals 3 cards onto an empty board and 1
\* card otherwise, and leaves stacks, bb_flag, hole hands and hand_over as
\* they were.
C24_NewStreetEffect ==
    [][last'.op = "new_street"
         => /\ pot_amount' = pot_amount + bets[0] + bets[1]
            /\ bets' = Pair(0, 0)
            /\ acted' = Pair(0, 0)
            /\ raise_count' = 0
            /\ street' = street + 1
            /\ acting_player' = bb_player'
            /\ Len(board') = Len(board) + (IF Len(board) = 0 THEN 3 ELSE 1)
            /\ \A i \in 1..Len(board) : board'[i] = board[i]
            /\ deck' = deck - (IF Len(board) = 0 THEN 3 ELSE 1)
            /\ UNCHANGED <<stacks, bb_flag, hands, hand_over>>]_vars

C24_Witness ==
    /\ last.op = "new_street"
    /\ street = 2
    /\ Len(board) = 4
    /\ pot_amount > sb_amt + bb_amt
    /\ bets = Pair(0, 0)

\* C25: exactly one entry of bb_flag and exactly one entry of action_flag is
\* true in every state reached through new_hand, update and new_street.
C25_FlagsWellFormed ==
    /\ \A i \in Roles : bb_flag[i] \in {0, 1} /\ action_flag[i] \in {0, 1}
    /\ bb_flag[0] + bb_flag[1] = 1
    /\ action_flag[0] + action_flag[1] = 1

C25_Witness ==
    /\ last.op = "new_street"
    /\ hands_dealt > 0
    /\ nacts > 0
    /\ acted = Pair(0, 0)
    /\ action_flag = bb_flag

====
